---- MODULE Spec2Model ----
(***************************************************************************)
(* HMTENN directory site: the scope/timestamp sitemap generator (the       *)
(* CommonJS script that follows the BusinessCard component in              *)
(* src/src/components/BusinessCard.js, lines 21-127), the slugifier it     *)
(* uses, and the getStaticPaths / getStaticProps pair of the [city] and    *)
(* [city]/[service] pages.                                                 *)
(*                                                                         *)
(* A JavaScript string is a sequence of characters; a character is a TLA+  *)
(* string ("a", "&", " ", and the tokens "RSQUO" for U+2019, "EACUTE" for  *)
(* U+00E9, "COMBACUTE" for U+0301).  A nullable JavaScript value is a      *)
(* tagged record: Null, Str(s), or a Date.  Date time values are kept in   *)
(* seconds since the epoch instead of milliseconds so that they fit the    *)
(* model checker's integers.                                               *)
(***************************************************************************)
EXTENDS Integers, Sequences, FiniteSets, TLC

VARIABLES
  env,        \* process.env: [url, key, site]
  pc,         \* position of the sitemap script
  baseUrl,    \* const baseUrl
  queryError, \* whether the supabase query returned an error
  data,       \* rows returned by the query (or Null)
  idx,        \* number of rows the dedup loop has consumed
  scopes,     \* the Map `scopes`, in insertion order
  urls,       \* the array `urls`
  file,       \* content of public/sitemap.xml
  writes,     \* number of writeFileSync calls of this run
  exitCode,   \* process exit code, -1 while running
  db,         \* the businesses table as the page layer sees it
  svcPaths,   \* result of getStaticPaths of [city]/[service]
  cityPaths,  \* result of getStaticPaths of [city]
  svcProps,   \* result of the last getStaticProps of [city]/[service]
  cityProps,  \* result of the last getStaticProps of [city]
  slugIn,     \* argument handed to slugify
  slugOut,    \* slugify(slugIn)
  slugTwice   \* slugify(slugify(slugIn))

genVars  == <<env, pc, baseUrl, queryError, data, idx, scopes, urls, file, writes, exitCode>>
pageVars == <<db, svcPaths, cityPaths, svcProps, cityProps>>
slugVars == <<slugIn, slugOut, slugTwice>>
vars     == <<genVars, pageVars, slugVars>>

----------------------------------------------------------------------------
(* Bounds *)

MaxRows == 2      \* rows returned by the sitemap query
MaxLen == 3       \* length of the strings handed to slugify
MaxDbRows == 2    \* rows of the businesses table seen by the pages

----------------------------------------------------------------------------
(* JavaScript values *)

Null == [t |-> "null"]
Undefined == [t |-> "undefined"]
Str(s) == [t |-> "string", v |-> s]
DateOf(valid, time) == [t |-> "date", valid |-> valid, time |-> time]
InvalidDate == DateOf(FALSE, 0)

\* `x || ''` for a string-or-null x
OrEmpty(x) == IF x.t = "string" THEN x.v ELSE <<>>

----------------------------------------------------------------------------
(* Characters *)

LowerLetters == {"a", "b", "d", "e", "n"}
UpperLetters == {"A", "B", "N"}
Digits == {"1"}
AlnumLower == LowerLetters \cup Digits
Whitespace == {" "}

LowerChar(c) ==
  CASE c = "A" -> "a"
    [] c = "B" -> "b"
    [] c = "N" -> "n"
    [] OTHER -> c

\* String.prototype.normalize('NFKD') on one character
DecomposeChar(c) == IF c = "EACUTE" THEN <<"e", "COMBACUTE">> ELSE <<c>>

----------------------------------------------------------------------------
(* String helpers *)

RECURSIVE Concat(_)
\* the concatenation of a sequence of strings
Concat(ss) == IF ss = <<>> THEN <<>> ELSE Head(ss) \o Concat(Tail(ss))

RECURSIVE DropLeading(_, _)
DropLeading(s, set) ==
  IF s # <<>> /\ Head(s) \in set THEN DropLeading(Tail(s), set) ELSE s

RECURSIVE DropTrailing(_, _)
DropTrailing(s, set) ==
  IF s # <<>> /\ s[Len(s)] \in set
    THEN DropTrailing(SubSeq(s, 1, Len(s) - 1), set)
    ELSE s

\* String.prototype.trim
Trim(s) == DropTrailing(DropLeading(s, Whitespace), Whitespace)

\* String.prototype.toLowerCase
ToLowerCase(s) == [k \in 1..Len(s) |-> LowerChar(s[k])]

\* .normalize('NFKD')
NormalizeNFKD(s) == Concat([k \in 1..Len(s) |-> DecomposeChar(s[k])])

AmpChar(c) == IF c = "&" THEN <<" ", "a", "n", "d", " ">> ELSE <<c>>

\* .replace(/&/g, ' and ')
ReplaceAmp(s) == Concat([k \in 1..Len(s) |-> AmpChar(s[k])])

\* .replace(/['\u2019]/g, '')
DropQuotes(s) == SelectSeq(s, LAMBDA c : c \notin {"'", "RSQUO"})

RECURSIVE SkipNonAlnum(_)
\* the rest of s after its leading run of characters outside [a-z0-9]
SkipNonAlnum(s) ==
  IF s # <<>> /\ Head(s) \notin AlnumLower THEN SkipNonAlnum(Tail(s)) ELSE s

RECURSIVE CollapseNonAlnum(_)
\* .replace(/[^a-z0-9]+/g, '-'): every maximal run becomes one hyphen
CollapseNonAlnum(s) ==
  IF s = <<>> THEN <<>>
  ELSE IF Head(s) \in AlnumLower THEN <<Head(s)>> \o CollapseNonAlnum(Tail(s))
  ELSE <<"-">> \o CollapseNonAlnum(SkipNonAlnum(s))

\* a slip of TrimDashes: only the leading hyphens are removed
TrimDashesLeadingOnly(s) == DropLeading(s, {"-"})

\* .replace(/^-+|-+$/g, '')
TrimDashes(s) == DropTrailing(DropLeading(s, {"-"}), {"-"})

\* slugify(s) of the sitemap script; x is a string or Null
slugify(x) ==
  TrimDashes(CollapseNonAlnum(ToLowerCase(DropQuotes(ReplaceAmp(NormalizeNFKD(OrEmpty(x)))))))

----------------------------------------------------------------------------
(* The sitemap script: configuration *)

DefaultSite == <<"https:", "/", "/", "hmtenn.vercel.app">>
SiteValues == {Null, Str(<<"https:", "/", "/", "s.example", "/">>)}
PublicSiteValues == {Null, Str(<<"https:", "/", "/", "p.example">>)}

Envs == [url : BOOLEAN, key : BOOLEAN, site : SiteValues, publicSite : PublicSiteValues]

\* JavaScript truthiness of the values the script tests
Truthy(x) ==
  CASE x.t = "null" -> FALSE
    [] x.t = "undefined" -> FALSE
    [] x.t = "string" -> Len(x.v) > 0
    [] OTHER -> TRUE    \* any object, an Invalid Date included

\* .replace(/\/$/, '')
StripTrailingSlash(s) ==
  IF s # <<>> /\ s[Len(s)] = "/" THEN SubSeq(s, 1, Len(s) - 1) ELSE s

\* process.env.SITE_URL || process.env.NEXT_PUBLIC_SITE_URL || 'https://hmtenn.vercel.app'
BaseUrlOf(e) ==
  StripTrailingSlash(
    IF Truthy(e.site) THEN e.site.v
    ELSE IF Truthy(e.publicSite) THEN e.publicSite.v
    ELSE DefaultSite)

----------------------------------------------------------------------------
(* The sitemap script: rows and dates *)

Stamps == {Null, Str("not-a-date"), Str("2024-01-01"), Str("2024-06-01T12:30:00Z")}

RowsCase == [city : {Str(<<"N", "a">>), Str(<<"n", "a">>), Str(<<" ", "N", "a", " ">>)},
             service : {Str(<<"b">>)},
             updated_at : Stamps]
RowsPipe == [city : {Str(<<"a", "|">>), Str(<<"a">>)},
             service : {Str(<<"b">>), Str(<<"|", "b">>), Str(<<"B">>)},
             updated_at : {Null}]
RowsEdge == {[city |-> Str(<<" ">>), service |-> Str(<<"b">>), updated_at |-> Str("2024-01-01")],
             [city |-> Str(<<"N", "a">>), service |-> Null, updated_at |-> Str("2024-01-01")],
             [city |-> Str(<<"|">>), service |-> Str(<<"b">>), updated_at |-> Null]}
Rows == RowsCase \cup RowsPipe \cup RowsEdge

SeqsUpTo(S, n) == UNION {[1..k -> S] : k \in 0..n}

Array(v) == [t |-> "array", v |-> v]
DataSets == {Null} \cup {Array(v) : v \in SeqsUpTo(Rows, MaxRows)}

\* Array.isArray(data) ? data : []
RowsOf(d) == IF d.t = "array" THEN d.v ELSE <<>>

\* new Date(string): the time value, or an Invalid Date when the string does not parse
NewDate(str) ==
  CASE str = "2024-01-01" -> DateOf(TRUE, 1704067200)
    [] str = "2024-06-01T12:30:00Z" -> DateOf(TRUE, 1717245000)
    [] OTHER -> InvalidDate

\* a > b on two Dates: a comparison with NaN is false
DateGreater(a, b) == a.valid /\ b.valid /\ a.time > b.time

\* date.toISOString().slice(0, 10); toISOString throws a RangeError on an Invalid Date
IsoDay(d) ==
  LET day == d.time \div 86400
  IN CASE day = 19723 -> "2024-01-01"
       [] day = 19875 -> "2024-06-01"

----------------------------------------------------------------------------
(* The sitemap script: the dedup loop *)

Separator == <<"|", "|">>

\* a slip of DedupKey: the key is built from lowercased values
DedupKeyLowercased(city, service) == ToLowerCase(city) \o Separator \o ToLowerCase(service)

\* a slip of DedupKey: the service is left out of the key
DedupKeyCityOnly(city, service) == city

\* const key = `${city}||${service}`
DedupKey(city, service) == city \o Separator \o service

\* const ts = row.updated_at ? new Date(row.updated_at) : null
RowTs(row) == IF Truthy(row.updated_at) THEN NewDate(row.updated_at.v) ELSE Null

RowCity(row) == Trim(OrEmpty(row.city))
RowService(row) == Trim(OrEmpty(row.service))

\* scopes.get(key): the position of the entry, 0 when there is none
ScopeIndex(m, key) ==
  IF \E k \in 1..Len(m) : m[k].key = key
    THEN CHOOSE k \in 1..Len(m) : m[k].key = key
    ELSE 0

\* one iteration of `for (const row of ...)` on the map m
DedupStep(m, row) ==
  LET city == RowCity(row)
      service == RowService(row)
      key == DedupKey(city, service)
      ts == RowTs(row)
      at == ScopeIndex(m, key)
  IN IF city = <<>> \/ service = <<>> THEN m
     ELSE IF at = 0
       THEN Append(m, [key |-> key, city |-> city, service |-> service,
                       lastmod |-> IF Truthy(ts) THEN ts ELSE Null])
     ELSE IF Truthy(ts) /\ (~Truthy(m[at].lastmod) \/ DateGreater(ts, m[at].lastmod))
       THEN [m EXCEPT ![at].lastmod = ts]
     ELSE m

----------------------------------------------------------------------------
(* The sitemap script: URL entries and serialisation *)

\* priorities are kept in tenths: 10 is 1.0, 8 is 0.8
HomeEntry(base) ==
  [loc |-> base, lastmod |-> Undefined, changefreq |-> Str(<<"daily">>), priority |-> 10]

\* `${baseUrl}/${citySlug}/${svcSlug}`
ScopeLoc(base, sc) == base \o <<"/">> \o slugify(Str(sc.city)) \o <<"/">> \o slugify(Str(sc.service))

\* lastmod ? lastmod.toISOString().slice(0, 10) : undefined
ScopeLastmod(sc) == IF Truthy(sc.lastmod) THEN Str(<<IsoDay(sc.lastmod)>>) ELSE Undefined

ScopeEntry(base, sc) ==
  [loc |-> ScopeLoc(base, sc), lastmod |-> ScopeLastmod(sc),
   changefreq |-> Str(<<"daily">>), priority |-> 8]

\* toISOString throws on some scope
BuildThrows(m) == \E k \in 1..Len(m) : Truthy(m[k].lastmod) /\ ~m[k].lastmod.valid

BuildUrlEntries(base, m) ==
  <<HomeEntry(base)>> \o [k \in 1..Len(m) |-> ScopeEntry(base, m[k])]

\* Number.prototype.toFixed(1) of a priority kept in tenths
ToFixed1(p) ==
  LET digit(n) == CASE n = 0 -> "0" [] n = 1 -> "1" [] n = 8 -> "8"
  IN <<digit(p \div 10), ".", digit(p % 10)>>

Line(tag, text) == [tag |-> tag, text |-> text]

\* a slip of UrlLines: the lastmod element is written even when there is no value
UrlLinesAlwaysLastmod(u) ==
  <<Line("<url>", <<>>), Line("<loc>", u.loc)>>
    \o <<Line("<lastmod>", IF Truthy(u.lastmod) THEN u.lastmod.v ELSE <<>>)>>
    \o (IF Truthy(u.changefreq) THEN <<Line("<changefreq>", u.changefreq.v)>> ELSE <<>>)
    \o <<Line("<priority>", ToFixed1(u.priority))>>
    \o <<Line("</url>", <<>>)>>

\* the lines of one <url> element
UrlLines(u) ==
  <<Line("<url>", <<>>), Line("<loc>", u.loc)>>
    \o (IF Truthy(u.lastmod) THEN <<Line("<lastmod>", u.lastmod.v)>> ELSE <<>>)
    \o (IF Truthy(u.changefreq) THEN <<Line("<changefreq>", u.changefreq.v)>> ELSE <<>>)
    \o <<Line("<priority>", ToFixed1(u.priority))>>
    \o <<Line("</url>", <<>>)>>

SerializeXml(us) ==
  <<Line("<?xml>", <<>>), Line("<urlset>", <<>>)>>
    \o Concat([k \in 1..Len(us) |-> UrlLines(us[k])])
    \o <<Line("</urlset>", <<>>)>>

PriorFile == [t |-> "prior"]
XmlFile(lines) == [t |-> "xml", lines |-> lines]

----------------------------------------------------------------------------
(* The sitemap script: the run *)

InitGen ==
  /\ env \in Envs
  /\ pc = "env"
  /\ baseUrl = <<>>
  /\ queryError = FALSE
  /\ data = Null
  /\ idx = 0
  /\ scopes = <<>>
  /\ urls = <<>>
  /\ file = PriorFile
  /\ writes = 0
  /\ exitCode = -1

\* lines 31-41: the fail-fast check, then baseUrl
CheckEnv ==
  /\ pc = "env"
  /\ IF ~env.url \/ ~env.key
       THEN /\ pc' = "exit"
            /\ exitCode' = 1
            /\ UNCHANGED baseUrl
       ELSE /\ pc' = "query"
            /\ baseUrl' = BaseUrlOf(env)
            /\ UNCHANGED exitCode
  /\ UNCHANGED <<env, queryError, data, idx, scopes, urls, file, writes>>

\* lines 59-66: the query answers with an error or with rows
Query ==
  /\ pc = "query"
  /\ \E failed \in BOOLEAN :
       IF failed
         THEN /\ queryError' = TRUE
              /\ pc' = "exit"
              /\ exitCode' = 1
              /\ UNCHANGED data
         ELSE /\ \E d \in DataSets : data' = d
              /\ pc' = "dedup"
              /\ UNCHANGED <<queryError, exitCode>>
  /\ UNCHANGED <<env, baseUrl, idx, scopes, urls, file, writes>>

\* lines 69-83: one iteration of the dedup loop
DedupRow ==
  /\ pc = "dedup"
  /\ idx < Len(RowsOf(data))
  /\ scopes' = DedupStep(scopes, RowsOf(data)[idx + 1])
  /\ idx' = idx + 1
  /\ UNCHANGED <<env, pc, baseUrl, queryError, data, urls, file, writes, exitCode>>

\* lines 86-104: the URL entries; an exception rejects the async function,
\* and the unhandled rejection ends the process with code 1
BuildUrls ==
  /\ pc = "dedup"
  /\ idx = Len(RowsOf(data))
  /\ IF BuildThrows(scopes)
       THEN /\ pc' = "exit"
            /\ exitCode' = 1
            /\ UNCHANGED urls
       ELSE /\ pc' = "write"
            /\ urls' = BuildUrlEntries(baseUrl, scopes)
            /\ UNCHANGED exitCode
  /\ UNCHANGED <<env, baseUrl, queryError, data, idx, scopes, file, writes>>

\* lines 107-126: serialise, write public/sitemap.xml, end normally
WriteSitemap ==
  /\ pc = "write"
  /\ file' = XmlFile(SerializeXml(urls))
  /\ writes' = writes + 1
  /\ pc' = "exit"
  /\ exitCode' = 0
  /\ UNCHANGED <<env, baseUrl, queryError, data, idx, scopes, urls>>

----------------------------------------------------------------------------
(* The page layer: getStaticPaths and getStaticProps *)

PageRows == [city : {<<"N", "a">>, <<"n", "a">>, <<"N", " ", "a">>},
             service : {<<"b">>, <<"B">>, <<"a", "&", "b">>}]

\* [...new Set(xs)]: the distinct elements in order of first occurrence
RECURSIVE Distinct(_)
Distinct(xs) ==
  IF xs = <<>> THEN <<>>
  ELSE LET init == Distinct(SubSeq(xs, 1, Len(xs) - 1))
           last == xs[Len(xs)]
       IN IF \E k \in 1..Len(init) : init[k] = last THEN init ELSE Append(init, last)

\* [city]/[service].js getStaticPaths: one params object per row
ServicePathsOf(table) ==
  [k \in 1..Len(table) |->
     [city |-> ToLowerCase(table[k].city), service |-> ToLowerCase(table[k].service)]]

\* [city].js getStaticPaths: one params object per distinct stored city
CityPathsOf(table) ==
  LET cities == Distinct([k \in 1..Len(table) |-> table[k].city])
  IN [k \in 1..Len(cities) |-> [city |-> ToLowerCase(cities[k])]]

\* .eq(column, value): the store's equality filter on a text column
Eq(stored, value) == stored = value

\* [city]/[service].js getStaticProps
ServicePropsOf(table, params) ==
  [city |-> params.city, service |-> params.service,
   businesses |-> SelectSeq(table, LAMBDA b : Eq(b.city, params.city) /\ Eq(b.service, params.service))]

\* [city].js getStaticProps
CityPropsOf(table, params) ==
  [city |-> params.city,
   businesses |-> SelectSeq(table, LAMBDA b : Eq(b.city, params.city))]

ServiceGetStaticPaths ==
  /\ svcPaths = Null
  /\ svcPaths' = Array(ServicePathsOf(db))
  /\ UNCHANGED <<db, cityPaths, svcProps, cityProps>>

ServiceGetStaticProps ==
  /\ svcPaths # Null
  /\ \E k \in 1..Len(svcPaths.v) : svcProps' = ServicePropsOf(db, svcPaths.v[k])
  /\ UNCHANGED <<db, svcPaths, cityPaths, cityProps>>

CityGetStaticPaths ==
  /\ cityPaths = Null
  /\ cityPaths' = Array(CityPathsOf(db))
  /\ UNCHANGED <<db, svcPaths, svcProps, cityProps>>

CityGetStaticProps ==
  /\ cityPaths # Null
  /\ \E k \in 1..Len(cityPaths.v) : cityProps' = CityPropsOf(db, cityPaths.v[k])
  /\ UNCHANGED <<db, svcPaths, cityPaths, svcProps>>

----------------------------------------------------------------------------
(* slugify applied to arbitrary short strings *)

SlugChars == {"a", "A", "1", "&", "'", "RSQUO", " ", "-", "|", "EACUTE"}
SlugInputs == {Null} \cup {Str(s) : s \in SeqsUpTo(SlugChars, MaxLen)}

ApplySlugify ==
  /\ slugOut = Null
  /\ slugOut' = Str(slugify(slugIn))
  /\ UNCHANGED <<slugIn, slugTwice>>

ApplySlugifyAgain ==
  /\ slugOut # Null
  /\ slugTwice = Null
  /\ slugTwice' = Str(slugify(slugOut))
  /\ UNCHANGED <<slugIn, slugOut>>

----------------------------------------------------------------------------
(* Specifications *)

GenIdle ==
  /\ env = [url |-> TRUE, key |-> TRUE, site |-> Null, publicSite |-> Null]
  /\ pc = "idle"
  /\ baseUrl = <<>>
  /\ queryError = FALSE
  /\ data = Null
  /\ idx = 0
  /\ scopes = <<>>
  /\ urls = <<>>
  /\ file = PriorFile
  /\ writes = 0
  /\ exitCode = -1

PageIdle ==
  /\ db = <<>>
  /\ svcPaths = Null
  /\ cityPaths = Null
  /\ svcProps = Null
  /\ cityProps = Null

SlugIdle ==
  /\ slugIn = Null
  /\ slugOut = Null
  /\ slugTwice = Null

\* one run of the sitemap script
Init == InitGen /\ PageIdle /\ SlugIdle

Next ==
  \/ CheckEnv /\ UNCHANGED <<pageVars, slugVars>>
  \/ Query /\ UNCHANGED <<pageVars, slugVars>>
  \/ DedupRow /\ UNCHANGED <<pageVars, slugVars>>
  \/ BuildUrls /\ UNCHANGED <<pageVars, slugVars>>
  \/ WriteSitemap /\ UNCHANGED <<pageVars, slugVars>>

Spec == Init /\ [][Next]_vars

\* the pages over a table of businesses
PageInit ==
  /\ GenIdle
  /\ SlugIdle
  /\ db \in SeqsUpTo(PageRows, MaxDbRows)
  /\ svcPaths = Null
  /\ cityPaths = Null
  /\ svcProps = Null
  /\ cityProps = Null

PageNext ==
  \/ ServiceGetStaticPaths /\ UNCHANGED <<genVars, slugVars>>
  \/ ServiceGetStaticProps /\ UNCHANGED <<genVars, slugVars>>
  \/ CityGetStaticPaths /\ UNCHANGED <<genVars, slugVars>>
  \/ CityGetStaticProps /\ UNCHANGED <<genVars, slugVars>>

PageSpec == PageInit /\ [][PageNext]_vars

\* slugify as a function of its argument
SlugInit ==
  /\ GenIdle
  /\ PageIdle
  /\ slugIn \in SlugInputs
  /\ slugOut = Null
  /\ slugTwice = Null

SlugNext ==
  \/ ApplySlugify /\ UNCHANGED <<genVars, pageVars>>
  \/ ApplySlugifyAgain /\ UNCHANGED <<genVars, pageVars>>

SlugSpec == SlugInit /\ [][SlugNext]_vars

----------------------------------------------------------------------------
(* Vocabulary of the properties *)

EnvOk == env.url /\ env.key

\* the rows the dedup loop has consumed so far
Prefix == SubSeq(RowsOf(data), 1, idx)

NonEmptyRow(r) == RowCity(r) # <<>> /\ RowService(r) # <<>>
PairOf(r) == <<RowCity(r), RowService(r)>>
ScopePair(sc) == <<sc.city, sc.service>>

Parseable(r) == Truthy(r.updated_at) /\ NewDate(r.updated_at.v).valid
Unparseable(r) == Truthy(r.updated_at) /\ ~NewDate(r.updated_at.v).valid

SetMax(S) == CHOOSE x \in S : \A y \in S : y <= x

\* the latest parseable updated_at among the consumed rows of one pair
LatestOf(pair) ==
  LET times == {NewDate(Prefix[k].updated_at.v).time :
                  k \in {j \in 1..Len(Prefix) : PairOf(Prefix[j]) = pair /\ Parseable(Prefix[j])}}
  IN IF times = {} THEN Null ELSE DateOf(TRUE, SetMax(times))

EqualIgnoringCase(p, q) ==
  ToLowerCase(p[1]) = ToLowerCase(q[1]) /\ ToLowerCase(p[2]) = ToLowerCase(q[2])

HasPipe(r) == \E k \in 1..Len(RowCity(r) \o RowService(r)) : (RowCity(r) \o RowService(r))[k] = "|"

\* the scope a consumed row was stored in or merged into
ScopeOfRow(r) == scopes[ScopeIndex(scopes, DedupKey(RowCity(r), RowService(r)))]

\* first position of a key among the consumed rows
FirstRow(key) ==
  CHOOSE k \in 1..Len(Prefix) :
    /\ NonEmptyRow(Prefix[k]) /\ DedupKey(RowCity(Prefix[k]), RowService(Prefix[k])) = key
    /\ \A j \in 1..(k - 1) :
         ~(NonEmptyRow(Prefix[j]) /\ DedupKey(RowCity(Prefix[j]), RowService(Prefix[j])) = key)

\* reading the written document back: the lines between each <url> and </url>
RECURSIVE UrlBlocks(_)
UrlBlocks(lines) ==
  IF \A k \in 1..Len(lines) : lines[k].tag # "<url>" THEN <<>>
  ELSE LET open == CHOOSE k \in 1..Len(lines) :
                     lines[k].tag = "<url>" /\ \A j \in 1..(k - 1) : lines[j].tag # "<url>"
           close == CHOOSE k \in (open + 1)..Len(lines) :
                      lines[k].tag = "</url>" /\ \A j \in (open + 1)..(k - 1) : lines[j].tag # "</url>"
       IN <<SubSeq(lines, open + 1, close - 1)>> \o UrlBlocks(SubSeq(lines, close + 1, Len(lines)))

BlockHas(block, tag) == \E k \in 1..Len(block) : block[k].tag = tag
BlockText(block, tag) == block[CHOOSE k \in 1..Len(block) : block[k].tag = tag].text
BlockTags(block) == [k \in 1..Len(block) |-> block[k].tag]

RECURSIVE SplitSlash(_)
\* s.split('/')
SplitSlash(s) ==
  IF \A k \in 1..Len(s) : s[k] # "/" THEN <<s>>
  ELSE LET at == CHOOSE k \in 1..Len(s) : s[k] = "/" /\ \A j \in 1..(k - 1) : s[j] # "/"
       IN <<SubSeq(s, 1, at - 1)>> \o SplitSlash(SubSeq(s, at + 1, Len(s)))

----------------------------------------------------------------------------
(* C1 - C3: the dedup loop and the outcome of a run *)

\* C1: after any prefix of the rows, the map holds exactly one scope per distinct
\* non-empty (trimmed city, trimmed service) pair of the prefix, and its lastmod is
\* the latest parseable updated_at of the rows of that pair, null when there is none.
C1_ScopesOfPrefix ==
  pc \in {"dedup", "write", "exit"} =>
    /\ {ScopePair(scopes[k]) : k \in 1..Len(scopes)}
         = {PairOf(Prefix[k]) : k \in {j \in 1..Len(Prefix) : NonEmptyRow(Prefix[j])}}
    /\ \A k, j \in 1..Len(scopes) : ScopePair(scopes[k]) = ScopePair(scopes[j]) => k = j
    /\ \A k \in 1..Len(scopes) : scopes[k].lastmod = LatestOf(ScopePair(scopes[k]))

\* C2: an unparseable updated_at is handled as an absent one: the scope never holds
\* an invalid date, a parseable timestamp of the same scope still becomes lastmod,
\* and a run with settings and an error-free query reaches the write.
C2_UnparseableIsAbsent ==
  /\ \A k \in 1..Len(scopes) : scopes[k].lastmod = Null \/ scopes[k].lastmod.valid
  /\ \A k \in 1..Len(Prefix) :
       (NonEmptyRow(Prefix[k]) /\ Parseable(Prefix[k]))
         => (ScopeOfRow(Prefix[k]).lastmod # Null /\ ScopeOfRow(Prefix[k]).lastmod.valid)
  /\ (pc = "exit" /\ EnvOk /\ ~queryError) => writes = 1

\* C3: a run with a missing setting or a failed query ends with code 1 and never
\* touches the file; the file is written only in runs with both settings and an
\* error-free query, and those runs end with code 0.
C3_FailFast ==
  /\ (~EnvOk \/ queryError) => (writes = 0 /\ file = PriorFile)
  /\ (pc = "exit" /\ (~EnvOk \/ queryError)) => exitCode = 1
  /\ writes > 0 => (EnvOk /\ ~queryError)
  /\ (pc = "exit" /\ EnvOk /\ ~queryError) => exitCode = 0

\* the part of C3 that holds of the code: failed runs leave the file alone and end
\* with 1, and a run that wrote the file ends with 0
FailFastHolds ==
  /\ (~EnvOk \/ queryError) => (writes = 0 /\ file = PriorFile)
  /\ (pc = "exit" /\ (~EnvOk \/ queryError)) => exitCode = 1
  /\ writes > 0 => (EnvOk /\ ~queryError /\ exitCode = 0 /\ pc = "exit")
  /\ (pc = "exit" /\ exitCode = 0) => writes = 1

----------------------------------------------------------------------------
(* C4: slugify *)

WellFormedSlug(s) ==
  /\ \A k \in 1..Len(s) : s[k] \in AlnumLower \cup {"-"}
  /\ s # <<>> => (s[1] # "-" /\ s[Len(s)] # "-")
  /\ \A k \in 1..(Len(s) - 1) : ~(s[k] = "-" /\ s[k + 1] = "-")

\* C4: slugify(slugify(x)) = slugify(x) for every x, null and empty included, and
\* the result has only [a-z0-9-], no leading, trailing or doubled hyphen.
C4_SlugifyIdempotent ==
  /\ slugOut # Null => WellFormedSlug(slugOut.v)
  /\ slugTwice # Null => slugTwice = slugOut

\* a string that slugify changes, with "&" expanded and a run collapsed, slugged twice
C4_Witness ==
  /\ slugTwice # Null
  /\ slugIn = Str(<<"A", "&", "-">>)
  /\ slugOut = Str(<<"a", "-", "a", "n", "d">>)

\* null is slugged to the empty string, twice
C4_WitnessNull ==
  /\ slugTwice = Str(<<>>)
  /\ slugIn = Null

----------------------------------------------------------------------------
(* C5, C9: the dedup key *)

\* C5: no two scopes of the map have cities equal ignoring case and services equal
\* ignoring case.
C5_UniqueIgnoringCase ==
  \A k, j \in 1..Len(scopes) :
    EqualIgnoringCase(ScopePair(scopes[k]), ScopePair(scopes[j])) => k = j

\* C5 as amended: no two scopes have the same exact (trimmed city, trimmed service)
\* pair, and a row is never merged into a scope whose pair differs from the row's
\* only in letter case.
C5_UniqueExactCase ==
  /\ \A k, j \in 1..Len(scopes) : ScopePair(scopes[k]) = ScopePair(scopes[j]) => k = j
  /\ \A k \in 1..Len(Prefix) :
       NonEmptyRow(Prefix[k]) =>
         /\ ScopeIndex(scopes, DedupKey(RowCity(Prefix[k]), RowService(Prefix[k]))) # 0
         /\ EqualIgnoringCase(ScopePair(ScopeOfRow(Prefix[k])), PairOf(Prefix[k]))
              => ScopePair(ScopeOfRow(Prefix[k])) = PairOf(Prefix[k])

\* two rows differing only in the case of the city have been consumed and the
\* file is written
C5_Witness ==
  /\ pc = "exit" /\ exitCode = 0
  /\ Len(scopes) = 2
  /\ scopes[1].city # scopes[2].city
  /\ EqualIgnoringCase(ScopePair(scopes[1]), ScopePair(scopes[2]))

\* C9: consumed rows with different (trimmed city, trimmed service) pairs have
\* different keys, so a row is merged only into the scope of its own pair, also
\* when a value contains '|'.
C9_KeyUnambiguous ==
  /\ \A k, j \in 1..Len(Prefix) :
       (NonEmptyRow(Prefix[k]) /\ NonEmptyRow(Prefix[j]) /\ PairOf(Prefix[k]) # PairOf(Prefix[j]))
         => DedupKey(RowCity(Prefix[k]), RowService(Prefix[k]))
              # DedupKey(RowCity(Prefix[j]), RowService(Prefix[j]))
  /\ \A k \in 1..Len(Prefix) :
       NonEmptyRow(Prefix[k]) => ScopePair(ScopeOfRow(Prefix[k])) = PairOf(Prefix[k])

\* C9 as amended: the same, for rows of which at least one has no '|' in its
\* trimmed city and service; a row without '|' is merged only into the scope of
\* its own pair.
C9_KeyUnambiguousWithoutPipe ==
  /\ \A k, j \in 1..Len(Prefix) :
       (/\ NonEmptyRow(Prefix[k]) /\ NonEmptyRow(Prefix[j])
        /\ PairOf(Prefix[k]) # PairOf(Prefix[j])
        /\ (~HasPipe(Prefix[k]) \/ ~HasPipe(Prefix[j])))
         => DedupKey(RowCity(Prefix[k]), RowService(Prefix[k]))
              # DedupKey(RowCity(Prefix[j]), RowService(Prefix[j]))
  /\ \A k \in 1..Len(Prefix) :
       (NonEmptyRow(Prefix[k]) /\ ~HasPipe(Prefix[k]))
         => ScopePair(ScopeOfRow(Prefix[k])) = PairOf(Prefix[k])

\* two rows of one city and two services, none with '|', are kept as two scopes,
\* and so are a row with '|' and one without
C9_Witness ==
  /\ idx = 2
  /\ Len(scopes) = 2
  /\ scopes[1].city = scopes[2].city
  /\ ~HasPipe(Prefix[1]) /\ ~HasPipe(Prefix[2])

----------------------------------------------------------------------------
(* C6, C10: the written sitemap *)

WrittenBlocks == UrlBlocks(file.lines)

\* the site that the environment configures, as the script derives it
ConfiguredBase == BaseUrlOf(env)

\* C6: the written sitemap has len(scopes) + 1 url entries: the site root (daily,
\* 1.0, no lastmod), then one per scope in order of first occurrence in the input,
\* at base/slug(city)/slug(service), daily, 0.8, with a lastmod element exactly
\* when the scope's lastmod is non-null.
C6_SitemapEntries ==
  file # PriorFile =>
    /\ Len(WrittenBlocks) = Len(scopes) + 1
    /\ BlockTags(WrittenBlocks[1]) = <<"<loc>", "<changefreq>", "<priority>">>
    /\ BlockText(WrittenBlocks[1], "<loc>") = ConfiguredBase
    /\ BlockText(WrittenBlocks[1], "<changefreq>") = <<"daily">>
    /\ BlockText(WrittenBlocks[1], "<priority>") = <<"1", ".", "0">>
    /\ \A k \in 1..Len(scopes) :
         LET block == WrittenBlocks[k + 1]
             row == Prefix[FirstRow(scopes[k].key)]
         IN /\ BlockText(block, "<loc>")
                 = ConfiguredBase \o <<"/">> \o slugify(Str(Trim(row.city.v)))
                     \o <<"/">> \o slugify(Str(Trim(row.service.v)))
            /\ BlockText(block, "<changefreq>") = <<"daily">>
            /\ BlockText(block, "<priority>") = <<"0", ".", "8">>
            /\ BlockHas(block, "<lastmod>") <=> scopes[k].lastmod # Null
            /\ BlockTags(block) \in {<<"<loc>", "<changefreq>", "<priority>">>,
                                     <<"<loc>", "<lastmod>", "<changefreq>", "<priority>">>}
    /\ \A k, j \in 1..Len(scopes) :
         k < j => FirstRow(scopes[k].key) < FirstRow(scopes[j].key)

\* a sitemap of two scopes is written, the first without and the second with a
\* last-modified date
C6_Witness ==
  /\ file # PriorFile
  /\ Len(scopes) = 2
  /\ scopes[1].lastmod = Null
  /\ scopes[2].lastmod # Null
  /\ BlockText(WrittenBlocks[3], "<lastmod>") = <<"2024-06-01">>

\* C10: the locations of the written sitemap are pairwise distinct, and every
\* scope entry's location has a non-empty city segment and service segment.
C10_DistinctLocations ==
  file # PriorFile =>
    /\ \A k, j \in 1..Len(WrittenBlocks) :
         BlockText(WrittenBlocks[k], "<loc>") = BlockText(WrittenBlocks[j], "<loc>") => k = j
    /\ \A k \in 2..Len(WrittenBlocks) :
         LET loc == BlockText(WrittenBlocks[k], "<loc>")
             segments == SplitSlash(SubSeq(loc, Len(baseUrl) + 2, Len(loc)))
         IN Len(segments) = 2 /\ segments[1] # <<>> /\ segments[2] # <<>>

----------------------------------------------------------------------------
(* C7, C8: the page layer *)

\* C7: the params getStaticPaths of [city]/[service] generates for a stored row are
\* (slugify(city), slugify(service)), so the path of the row's sitemap location is
\* one of the generated paths.
C7_PathsAreSlugs ==
  svcPaths # Null =>
    /\ \A k \in 1..Len(db) :
         svcPaths.v[k] = [city |-> slugify(Str(db[k].city)), service |-> slugify(Str(db[k].service))]
    /\ \A k \in 1..Len(db) : \E j \in 1..Len(svcPaths.v) :
         /\ svcPaths.v[j].city = slugify(Str(Trim(db[k].city)))
         /\ svcPaths.v[j].service = slugify(Str(Trim(db[k].service)))

\* C8: getStaticProps called with the params getStaticPaths generated for a row
\* returns that row: every row of the city for [city], every row of the city and
\* service for [city]/[service].
C8_LookupFindsRows ==
  /\ svcProps # Null =>
       \A k \in 1..Len(db) :
         (ToLowerCase(db[k].city) = svcProps.city /\ ToLowerCase(db[k].service) = svcProps.service)
           => \E j \in 1..Len(svcProps.businesses) : svcProps.businesses[j] = db[k]
  /\ cityProps # Null =>
       \A k \in 1..Len(db) :
         ToLowerCase(db[k].city) = cityProps.city
           => \E j \in 1..Len(cityProps.businesses) : cityProps.businesses[j] = db[k]

====
